---- MODULE Spec2Model ----
(***************************************************************************)
(* Event console syslog framing (cmk/ec/helpers.py): the parser            *)
(* combinators, the frame dispatcher parse_syslog_message, the per-source  *)
(* reassembly built on it, and the ECLock guard.                           *)
(*                                                                         *)
(* Bytes are their integer codes; a window of tokens (a memoryview) is a   *)
(* sequence of bytes.  A ParseResult is a record: ok = FALSE is Failure    *)
(* (the value is then never read), rest is the window still unparsed;      *)
(* raised = TRUE stands for an exception that leaves the parser instead.   *)
(***************************************************************************)
EXTENDS Integers, Sequences, FiniteSets, TLC

VARIABLES
    window,      \* parser harness: the window a parser is applied to
    call,        \* parser harness: the function that was applied ("none" before)
    arg,         \* parser harness: its arguments before the window
    result,      \* parser harness: what it returned
    buf,         \* reassembly: source key -> pending bytes
    dispatched,  \* reassembly: source key -> messages handed to the consumer, in order
    framings,    \* history: source key -> the framing consumed for each dispatched message
    ends,        \* history: source key -> for each dispatched message, the place in the
                 \*          key's stream of the last byte consumed for it
    calls,       \* history: ingest calls so far
    lastcall,    \* history: the source key and the chunk of the last ingest call
    fed,         \* history: source key -> all bytes ever fed, in order
    sent,        \* history: source key -> the frames a sender encoded, in order
    locked,      \* ECLock._lock: TRUE while held
    pc,          \* thread -> position in its guarded region
    tmp,         \* thread -> counter value read inside the region
    counter,     \* the shared counter the regions increment
    regions,     \* thread -> guarded regions left
    raising,     \* thread -> TRUE while an exception of the region is in flight
    propagated,  \* thread -> exceptions of the region that reached the caller
    raised,      \* thread -> exceptions its regions raised
    acquires,    \* thread -> completed _lock.acquire() calls
    releases,    \* thread -> completed _lock.release() calls
    trace,       \* history: thread -> the debug records it logged and its lock actions
                 \*          since it last entered __enter__, in order
    glocked,     \* guarded ingest: lock -> TRUE while held
    gpc,         \* guarded ingest: thread -> position in its ingest call
    gjob,        \* guarded ingest: thread -> the source key and chunk of its call
    gtokens,     \* guarded ingest: thread -> the pending bytes it read, chunk appended
    gorder,      \* history: the calls in the order in which they acquired their lock
    returned,    \* history: source key -> the leftovers the calls returned, in order
    item_state,  \* veeam_tapejobs: job_id -> the stored "<job_id>.running_since"
    clock,       \* time.time() of the last check_veeam_tapejobs call
    vcall,       \* history: parsed.get(item) of the last check_veeam_tapejobs call
    yielded      \* what the last check_veeam_tapejobs call yielded

parseVars == <<window, call, arg, result>>
ingestVars == <<buf, dispatched, framings, ends, calls, lastcall, fed, sent>>
lockVars == <<locked, pc, tmp, counter, regions, raising, propagated, raised,
              acquires, releases, trace>>
guardVars == <<glocked, gpc, gjob, gtokens, gorder, returned>>
veeamVars == <<item_state, clock, vcall, yielded>>
vars == <<parseVars, ingestVars, lockVars, guardVars, veeamVars>>

----------------------------------------------------------------------------
(* Bytes *)

SP == 32
NL == 10
Digits == 48..57
NonZeroDigits == 49..57

\* The bytes the windows are built from: "0", "1", "2", space, newline, "x".
Alphabet == {48, 49, 50, SP, NL, 120}

MaxLen == 5

SeqsUpTo(S, n) == UNION {[1..m -> S] : m \in 0..n}

RECURSIVE Concat(_)
Concat(ss) == IF ss = <<>> THEN <<>> ELSE Head(ss) \o Concat(Tail(ss))

\* tokens[:n] and tokens[n:] for n >= 0 (a slice clamps at the end of the window)
Take(tokens, n) == SubSeq(tokens, 1, IF n < Len(tokens) THEN n ELSE Len(tokens))
Drop(tokens, n) == SubSeq(tokens, n + 1, Len(tokens))

----------------------------------------------------------------------------
(* The parsers *)

Fail(tokens) == [ok |-> FALSE, value |-> <<>>, rest |-> tokens, raised |-> FALSE]
Ok(v, tokens) == [ok |-> TRUE, value |-> v, rest |-> tokens, raised |-> FALSE]
Raise(tokens) == [ok |-> FALSE, value |-> <<>>, rest |-> tokens, raised |-> TRUE]

\* Mutant: the last byte of a value of two or more bytes is left in the remainder
parse_bytes_overlap(length, tokens) ==
    IF Len(Take(tokens, length)) # length THEN Fail(tokens)
    ELSE Ok(Take(tokens, length),
            IF length < 2 THEN Drop(tokens, length) ELSE Drop(tokens, length - 1))

parse_bytes(length, tokens) ==
    LET msg == Take(tokens, length)
    IN IF Len(msg) # length THEN Fail(tokens) ELSE Ok(msg, Drop(tokens, length))

parse_one_of(expected, tokens) ==
    LET r == parse_bytes(1, tokens)
    IN IF ~r.ok \/ r.value[1] \notin expected THEN Fail(tokens) ELSE Ok(r.value, r.rest)

parse_digit(tokens) == parse_one_of(Digits, tokens)

RECURSIVE zero_or_more_digits(_)
zero_or_more_digits(tokens) ==
    LET r == parse_digit(tokens)
    IN IF ~r.ok THEN Ok(<<>>, r.rest)
       ELSE LET z == zero_or_more_digits(r.rest)
            IN Ok(<<r.value>> \o z.value, z.rest)

\* int(b"..."): the value of a run of decimal digits
RECURSIVE bytes_to_int(_)
bytes_to_int(ds) ==
    IF ds = <<>> THEN 0
    ELSE 10 * bytes_to_int(SubSeq(ds, 1, Len(ds) - 1)) + (ds[Len(ds)] - 48)

\* int() of more than 4300 digits raises ValueError (CPython's default limit on
\* the conversion of a digit string, sys.int_info.default_max_str_digits)
IntMaxStrDigits == 4300

\* The length of the run of digits the window starts with
LeadingDigits(tokens) ==
    IF \E i \in 1..Len(tokens) : tokens[i] \notin Digits
    THEN (CHOOSE i \in 1..Len(tokens) :
            tokens[i] \notin Digits /\ \A j \in 1..(i - 1) : tokens[j] \in Digits) - 1
    ELSE Len(tokens)

\* parse_msg_len reaches int() with more digits than int() converts: a digit
\* 1-9, digits and a space, the digits more than IntMaxStrDigits
IntRaises(tokens) ==
    /\ Len(tokens) > IntMaxStrDigits + 1
    /\ tokens[1] \in NonZeroDigits
    /\ LeadingDigits(tokens) > IntMaxStrDigits
    /\ LeadingDigits(tokens) < Len(tokens)
    /\ tokens[LeadingDigits(tokens) + 1] = SP

\* Mutant: the first digit may be 0
parse_msg_len_leading_zero(tokens) ==
    LET r1 == parse_one_of(Digits, tokens)
    IN IF ~r1.ok THEN Fail(tokens)
       ELSE LET r2 == zero_or_more_digits(r1.rest)
            IN LET r3 == parse_one_of({SP}, r2.rest)
               IN IF ~r3.ok THEN Fail(tokens)
                  ELSE Ok(bytes_to_int(Concat(<<r1.value>> \o r2.value)), r3.rest)

\* Mutant: one digit only
parse_msg_len_one_digit(tokens) ==
    LET r1 == parse_one_of(NonZeroDigits, tokens)
    IN IF ~r1.ok THEN Fail(tokens)
       ELSE LET r3 == parse_one_of({SP}, r1.rest)
            IN IF ~r3.ok THEN Fail(tokens)
               ELSE Ok(bytes_to_int(r1.value), r3.rest)

\* Mutant: a missing space leaves the digits consumed
parse_msg_len_digits_consumed(tokens) ==
    LET r1 == parse_one_of(NonZeroDigits, tokens)
    IN IF ~r1.ok THEN Fail(tokens)
       ELSE LET r2 == zero_or_more_digits(r1.rest)
            IN LET r3 == parse_one_of({SP}, r2.rest)
               IN IF ~r3.ok THEN Fail(r2.rest)
                  ELSE Ok(bytes_to_int(Concat(<<r1.value>> \o r2.value)), r3.rest)

\* The three parsers are pure, so whether int() is reached, and with how many
\* digits, is decided on the window first: the digits of a run that long are not
\* collected one by one
parse_msg_len(tokens) ==
    IF IntRaises(tokens) THEN Raise(tokens)
    ELSE
    LET r1 == parse_one_of(NonZeroDigits, tokens)
    IN IF ~r1.ok THEN Fail(tokens)
       ELSE LET r2 == zero_or_more_digits(r1.rest)
            IN IF ~r2.ok THEN Fail(tokens)
               ELSE LET r3 == parse_one_of({SP}, r2.rest)
                    IN IF ~r3.ok THEN Fail(tokens)
                       ELSE Ok(bytes_to_int(Concat(<<r1.value>> \o r2.value)), r3.rest)

\* Mutant: the last newline of the window
LastNL(tokens) ==
    IF \E i \in 1..Len(tokens) : tokens[i] = NL
    THEN CHOOSE i \in 1..Len(tokens) :
            tokens[i] = NL /\ \A j \in (i + 1)..Len(tokens) : tokens[j] # NL
    ELSE 0

\* The index of the first newline of the window, 0 when there is none
FirstNL(tokens) ==
    IF \E i \in 1..Len(tokens) : tokens[i] = NL
    THEN CHOOSE i \in 1..Len(tokens) :
            tokens[i] = NL /\ \A j \in 1..(i - 1) : tokens[j] # NL
    ELSE 0

parse_non_transparent_frame(tokens) ==
    LET i == FirstNL(tokens)
    IN IF i = 0 THEN Fail(tokens)
       ELSE Ok(SubSeq(tokens, 1, i - 1), Drop(tokens, i))

\* Mutant: an incomplete octet-counted frame falls back to newline framing
parse_syslog_message_fallback(tokens) ==
    LET r1 == parse_msg_len(tokens)
    IN IF ~r1.ok THEN parse_non_transparent_frame(tokens)
       ELSE LET r2 == parse_bytes(r1.value, r1.rest)
            IN IF ~r2.ok THEN parse_non_transparent_frame(tokens)
               ELSE Ok(r2.value, r2.rest)

\* Mutant: the window after the length prefix is returned, not the one after the message
parse_syslog_message_rest1(tokens) ==
    LET r1 == parse_msg_len(tokens)
    IN IF ~r1.ok THEN parse_non_transparent_frame(tokens)
       ELSE LET r2 == parse_bytes(r1.value, r1.rest)
            IN IF ~r2.ok THEN Fail(tokens) ELSE Ok(r2.value, r1.rest)

\* Mutant: no newline framing when there is no length prefix
parse_syslog_message_octet_only(tokens) ==
    LET r1 == parse_msg_len(tokens)
    IN IF ~r1.ok THEN Fail(tokens)
       ELSE LET r2 == parse_bytes(r1.value, r1.rest)
            IN IF ~r2.ok THEN Fail(tokens) ELSE Ok(r2.value, r2.rest)

\* Mutant: newline framing is tried before octet counting
parse_syslog_message_newline_first(tokens) ==
    LET r0 == parse_non_transparent_frame(tokens)
    IN IF r0.ok THEN r0
       ELSE LET r1 == parse_msg_len(tokens)
            IN IF ~r1.ok THEN Fail(tokens)
               ELSE LET r2 == parse_bytes(r1.value, r1.rest)
                    IN IF ~r2.ok THEN Fail(tokens) ELSE Ok(r2.value, r2.rest)

\* An exception of parse_msg_len is not caught: it leaves parse_syslog_message
parse_syslog_message(tokens) ==
    LET r1 == parse_msg_len(tokens)
    IN IF r1.raised THEN Raise(tokens)
       ELSE IF ~r1.ok THEN parse_non_transparent_frame(tokens)
       ELSE LET r2 == parse_bytes(r1.value, r1.rest)
            IN IF ~r2.ok THEN Fail(tokens) ELSE Ok(r2.value, r2.rest)

----------------------------------------------------------------------------
(* Reassembly: ingest(sourceKey, newBytes) *)

\* The framing parse_syslog_message uses on a window it decodes
FramingOf(tokens) == IF parse_msg_len(tokens).ok THEN "octet" ELSE "newline"

\* Mutant: the messages of one call in reverse order
RECURSIVE decode_loop_reversed(_)
decode_loop_reversed(tokens) ==
    LET r == parse_syslog_message(tokens)
    IN IF ~r.ok
       THEN [msgs |-> <<>>, framings |-> <<>>, lefts |-> <<>>, leftover |-> r.rest,
             raised |-> r.raised]
       ELSE LET d == decode_loop_reversed(r.rest)
            IN [msgs |-> d.msgs \o <<r.value>>,
                framings |-> <<FramingOf(tokens)>> \o d.framings,
                lefts |-> <<Len(r.rest)>> \o d.lefts,
                leftover |-> d.leftover,
                raised |-> d.raised]

\* The decode loop: the messages in decoding order, the framing consumed for each,
\* the number of bytes still undecoded after each, and the window left; raised
\* when an exception of the parser ended the loop
RECURSIVE decode_loop(_)
decode_loop(tokens) ==
    LET r == parse_syslog_message(tokens)
    IN IF r.raised
       THEN [msgs |-> <<>>, framings |-> <<>>, lefts |-> <<>>, leftover |-> tokens,
             raised |-> TRUE]
       ELSE IF ~r.ok
       THEN [msgs |-> <<>>, framings |-> <<>>, lefts |-> <<>>, leftover |-> r.rest,
             raised |-> FALSE]
       ELSE LET d == decode_loop(r.rest)
            IN [msgs |-> <<r.value>> \o d.msgs,
                framings |-> <<FramingOf(tokens)>> \o d.framings,
                lefts |-> <<Len(r.rest)>> \o d.lefts,
                leftover |-> d.leftover,
                raised |-> d.raised]

\* Mutant: an empty chunk flushes the pending bytes as a message
ingest_flush(pending, newBytes) ==
    IF newBytes = <<>> /\ pending # <<>>
    THEN [msgs |-> <<pending>>, framings |-> <<"newline">>, lefts |-> <<0>>,
          leftover |-> <<>>, raised |-> FALSE]
    ELSE decode_loop(pending \o newBytes)

ingest(pending, newBytes) == decode_loop(pending \o newBytes)

Keys == {"k1", "k2"}

\* The pending buffer of a key: empty when the key has no entry yet
Pending(k) == IF k \in DOMAIN buf THEN buf[k] ELSE <<>>

RECURSIVE SumLen(_, _)
SumLen(f, ks) ==
    IF ks = {} THEN 0
    ELSE LET k == CHOOSE x \in ks : TRUE IN Len(f[k]) + SumLen(f, ks \ {k})

TotalFed == SumLen(fed, Keys)

\* Mutant: the entry of a key is dropped when nothing is left pending
StoreEvictEmpty(k, chunk, r) ==
    /\ buf' = [x \in (DOMAIN buf \cup {k}) \ (IF r.leftover = <<>> THEN {k} ELSE {}) |->
                    IF x = k THEN r.leftover ELSE buf[x]]
    /\ dispatched' = [dispatched EXCEPT ![k] = @ \o r.msgs]
    /\ framings' = [framings EXCEPT ![k] = @ \o r.framings]
    /\ ends' = [ends EXCEPT ![k] =
                    @ \o [i \in 1..Len(r.lefts) |-> Len(fed[k]) + Len(chunk) - r.lefts[i]]]
    /\ calls' = calls + 1
    /\ lastcall' = [key |-> k, chunk |-> chunk]
    /\ fed' = [fed EXCEPT ![k] = @ \o chunk]

\* Mutant: one pending buffer shared by all keys
StoreShared(k, chunk, r) ==
    /\ buf' = [x \in DOMAIN buf \cup {k} |-> r.leftover]
    /\ dispatched' = [dispatched EXCEPT ![k] = @ \o r.msgs]
    /\ framings' = [framings EXCEPT ![k] = @ \o r.framings]
    /\ ends' = [ends EXCEPT ![k] =
                    @ \o [i \in 1..Len(r.lefts) |-> Len(fed[k]) + Len(chunk) - r.lefts[i]]]
    /\ calls' = calls + 1
    /\ lastcall' = [key |-> k, chunk |-> chunk]
    /\ fed' = [fed EXCEPT ![k] = @ \o chunk]

\* The effects of one ingest call whose decode loop returned r; the call returns
\* r.leftover, the buffer it stores
Store(k, chunk, r) ==
    /\ buf' = [x \in DOMAIN buf \cup {k} |-> IF x = k THEN r.leftover ELSE buf[x]]
    /\ dispatched' = [dispatched EXCEPT ![k] = @ \o r.msgs]
    /\ framings' = [framings EXCEPT ![k] = @ \o r.framings]
    /\ ends' = [ends EXCEPT ![k] =
                    @ \o [i \in 1..Len(r.lefts) |-> Len(fed[k]) + Len(chunk) - r.lefts[i]]]
    /\ calls' = calls + 1
    /\ lastcall' = [key |-> k, chunk |-> chunk]
    /\ fed' = [fed EXCEPT ![k] = @ \o chunk]

\* One ingest call: append, decode as far as possible, dispatch, store, return
Ingest(k, chunk) == Store(k, chunk, ingest(Pending(k), chunk))

MaxFed == 4
MaxCalls == 3

\* A transport feeds any chunk, the empty one included
Feed(k, chunk) ==
    /\ calls < MaxCalls
    /\ TotalFed + Len(chunk) <= MaxFed
    /\ Ingest(k, chunk)
    /\ UNCHANGED <<sent, parseVars, lockVars, guardVars, veeamVars>>

----------------------------------------------------------------------------
(* Senders that frame whole messages (RFC 6587) *)

\* str(n).encode(): the decimal digits of n, no leading zero
RECURSIVE int_to_bytes(_)
int_to_bytes(n) ==
    IF n < 10 THEN <<48 + n>> ELSE int_to_bytes(n \div 10) \o <<48 + (n % 10)>>

Encode(payload, framing) ==
    IF framing = "octet" THEN int_to_bytes(Len(payload)) \o <<SP>> \o payload
    ELSE payload \o <<NL>>

MaxPayloadLen == 2
MaxFrames == 2

\* Payloads: all short ones over "1", space, "x"; some with a newline; two of ten
\* bytes and more
PayloadBytes == {49, SP, 120}
OtherPayloads ==
    { <<NL>>, <<120, NL>>, <<NL, 120>>,
      [i \in 1..10 |-> 120], <<49, 48, SP>> \o [i \in 1..10 |-> 120] }
Payloads == SeqsUpTo(PayloadBytes, MaxPayloadLen) \cup OtherPayloads

NewlineFree(p) == \A i \in 1..Len(p) : p[i] # NL

TotalSent == SumLen(sent, Keys)

SendFrame(k, payload, framing) ==
    /\ TotalSent < MaxFrames
    /\ framing = "newline" => NewlineFree(payload)
    /\ Ingest(k, Encode(payload, framing))
    /\ sent' = [sent EXCEPT ![k] = Append(@, [payload |-> payload, framing |-> framing])]
    /\ UNCHANGED <<parseVars, lockVars, guardVars, veeamVars>>

----------------------------------------------------------------------------
(* The chunks of test_return_unprocessed and test_process_spool_file *)

\* b'May 26 13:45:01 Klapprechner CRON[8046]:  message\n'
TransparentLine ==
    <<77, 97, 121, 32, 50, 54, 32, 49, 51, 58, 52, 53, 58, 48, 49, 32, 75,
      108, 97, 112, 112, 114, 101, 99, 104, 110, 101, 114, 32, 67, 82, 79,
      78, 91, 56, 48, 52, 54, 93, 58, 32, 32, 109, 101, 115, 115, 97, 103,
      101, 10>>

\* b'45 May 26 13:45:01 Klapprechner CRON[8046]: octet message\n'
Octet45Line ==
    <<52, 53, 32, 77, 97, 121, 32, 50, 54, 32, 49, 51, 58, 52, 53, 58, 48,
      49, 32, 75, 108, 97, 112, 112, 114, 101, 99, 104, 110, 101, 114, 32,
      67, 82, 79, 78, 91, 56, 48, 52, 54, 93, 58, 32, 111, 99, 116, 101,
      116, 32, 109, 101, 115, 115, 97, 103, 101, 10>>

\* b'58 May 26 13:45:01 Klapprechner CRON[8046]: octet message\n'
Octet58Line ==
    <<53, 56, 32, 77, 97, 121, 32, 50, 54, 32, 49, 51, 58, 52, 53, 58, 48,
      49, 32, 75, 108, 97, 112, 112, 114, 101, 99, 104, 110, 101, 114, 32,
      67, 82, 79, 78, 91, 56, 48, 52, 54, 93, 58, 32, 111, 99, 116, 101,
      116, 32, 109, 101, 115, 115, 97, 103, 101, 10>>

\* b'"May 26 13:45:01 Klapprechner CRON[8046]:  message\n'
SpoolLine1 ==
    <<34, 77, 97, 121, 32, 50, 54, 32, 49, 51, 58, 52, 53, 58, 48, 49, 32,
      75, 108, 97, 112, 112, 114, 101, 99, 104, 110, 101, 114, 32, 67, 82,
      79, 78, 91, 56, 48, 52, 54, 93, 58, 32, 32, 109, 101, 115, 115, 97,
      103, 101, 10>>

\* b'55 May 26 13:45:01 Klapprechner CRON[8046]: octet message\n'
SpoolLine2 ==
    <<53, 53, 32, 77, 97, 121, 32, 50, 54, 32, 49, 51, 58, 52, 53, 58, 48,
      49, 32, 75, 108, 97, 112, 112, 114, 101, 99, 104, 110, 101, 114, 32,
      67, 82, 79, 78, 91, 56, 48, 52, 54, 93, 58, 32, 111, 99, 116, 101,
      116, 32, 109, 101, 115, 115, 97, 103, 101, 10>>

TestChunks == {TransparentLine, Octet45Line, Octet58Line, SpoolLine1, SpoolLine2}

\* process_syslog_data(chunk, None): every test feeds the one source None
FeedTest(chunk) ==
    /\ calls < MaxCalls
    /\ Ingest("k1", chunk)
    /\ UNCHANGED <<sent, parseVars, lockVars, guardVars, veeamVars>>

----------------------------------------------------------------------------
(* A spool file fed line by line, as test_process_spool_file feeds one *)

\* splitlines(keepends=True): each line ends with its newline and holds no other;
\* the last line of a file may end without one
IsLine(c) == c # <<>> /\ c[Len(c)] = NL /\ \A i \in 1..(Len(c) - 1) : c[i] # NL
IsTrailingLine(c) == c # <<>> /\ \A i \in 1..Len(c) : c[i] # NL

FileLines(n) == {c \in SeqsUpTo(Alphabet, n) : IsLine(c) \/ IsTrailingLine(c)}

\* The file has ended once a line without newline was fed
FeedLine(line) ==
    /\ calls < MaxCalls
    /\ IF fed["k1"] = <<>> THEN TRUE ELSE fed["k1"][Len(fed["k1"])] = NL
    /\ Ingest("k1", line)
    /\ UNCHANGED <<sent, parseVars, lockVars, guardVars, veeamVars>>

----------------------------------------------------------------------------
(* The parsers applied to one window *)

\* The byte sets the callers of parse_one_of pass
ExpectedSets == {Digits, NonZeroDigits, {SP}}

CallParseBytes(length) ==
    /\ call = "none"
    /\ call' = "parse_bytes"
    /\ arg' = <<length>>
    /\ result' = parse_bytes(length, window)
    /\ UNCHANGED <<window, ingestVars, lockVars, guardVars, veeamVars>>

CallParseOneOf(expected) ==
    /\ call = "none"
    /\ call' = "parse_one_of"
    /\ arg' = <<expected>>
    /\ result' = parse_one_of(expected, window)
    /\ UNCHANGED <<window, ingestVars, lockVars, guardVars, veeamVars>>

CallParseDigit ==
    /\ call = "none"
    /\ call' = "parse_digit"
    /\ result' = parse_digit(window)
    /\ UNCHANGED <<window, arg, ingestVars, lockVars, guardVars, veeamVars>>

CallParseSyslogMessage ==
    /\ call = "none"
    /\ call' = "parse_syslog_message"
    /\ result' = parse_syslog_message(window)
    /\ UNCHANGED <<window, arg, ingestVars, lockVars, guardVars, veeamVars>>

CallParseMsgLen ==
    /\ call = "none"
    /\ call' = "parse_msg_len"
    /\ result' = parse_msg_len(window)
    /\ UNCHANGED <<window, arg, ingestVars, lockVars, guardVars, veeamVars>>

CallParseNonTransparentFrame ==
    /\ call = "none"
    /\ call' = "parse_non_transparent_frame"
    /\ result' = parse_non_transparent_frame(window)
    /\ UNCHANGED <<window, arg, ingestVars, lockVars, guardVars, veeamVars>>

\* ingest of the window as one chunk for a key with nothing pending
CallIngest ==
    /\ call = "none"
    /\ call' = "ingest"
    /\ result' = ingest(<<>>, window)
    /\ UNCHANGED <<window, arg, ingestVars, lockVars, guardVars, veeamVars>>

----------------------------------------------------------------------------
(* ECLock: threads incrementing a shared counter inside the guard *)

NThreads == 2
NRegions == 2
MaxRaise == 1

Threads == 1..NThreads

RECURSIVE Sum(_, _)
Sum(f, S) == IF S = {} THEN 0 ELSE LET x == CHOOSE y \in S : TRUE IN f[x] + Sum(f, S \ {x})

\* Mutant: acquire() does not wait for the lock
CanAcquireAlways(l) == TRUE

\* Mutant: acquire() never returns
CanAcquireNever(l) == FALSE

\* threading.Lock.acquire() returns only when the lock is not held
CanAcquire(l) == ~l

\* Mutant: __exit__ returns True
ExitSwallowsAlways == TRUE

\* __exit__ returns False: the exception of the region is not swallowed
ExitSwallows == FALSE

\* A debug record of the logger, with the name of the thread that emits it
\* (threading.current_thread().name), or a lock action of that thread
Record(t, what) == [thread |-> t, what |-> what]

Emit(t, what) == trace' = [trace EXCEPT ![t] = Append(@, Record(t, what))]

EnterTrying(t) ==
    /\ pc[t] = "idle"
    /\ regions[t] > 0
    /\ pc' = [pc EXCEPT ![t] = "enter_acquire"]
    /\ trace' = [trace EXCEPT ![t] = <<Record(t, "Trying to acquire lock")>>]
    /\ UNCHANGED <<locked, tmp, counter, regions, raising, propagated, raised,
                   acquires, releases, parseVars, ingestVars, guardVars, veeamVars>>

EnterAcquire(t) ==
    /\ pc[t] = "enter_acquire"
    /\ CanAcquire(locked)
    /\ locked' = TRUE
    /\ acquires' = [acquires EXCEPT ![t] = @ + 1]
    /\ pc' = [pc EXCEPT ![t] = "enter_acquired"]
    /\ Emit(t, "acquire")
    /\ UNCHANGED <<tmp, counter, regions, raising, propagated, raised, releases,
                   parseVars, ingestVars, guardVars, veeamVars>>

EnterAcquired(t) ==
    /\ pc[t] = "enter_acquired"
    /\ pc' = [pc EXCEPT ![t] = "read"]
    /\ Emit(t, "Acquired lock")
    /\ UNCHANGED <<locked, tmp, counter, regions, raising, propagated, raised,
                   acquires, releases, parseVars, ingestVars, guardVars, veeamVars>>

RegionRead(t) ==
    /\ pc[t] = "read"
    /\ tmp' = [tmp EXCEPT ![t] = counter]
    /\ pc' = [pc EXCEPT ![t] = "write"]
    /\ Emit(t, "region")
    /\ UNCHANGED <<locked, counter, regions, raising, propagated, raised,
                   acquires, releases, parseVars, ingestVars, guardVars, veeamVars>>

RegionWrite(t) ==
    /\ pc[t] = "write"
    /\ counter' = tmp[t] + 1
    /\ regions' = [regions EXCEPT ![t] = @ - 1]
    /\ pc' = [pc EXCEPT ![t] = "exit_releasing"]
    /\ UNCHANGED <<locked, tmp, raising, propagated, raised, acquires, releases,
                   parseVars, ingestVars, guardVars, trace, veeamVars>>

\* The region fails partway: the increment is not done, the thread will retry it
RegionRaise(t) ==
    /\ pc[t] = "write"
    /\ Sum(raised, Threads) < MaxRaise
    /\ raised' = [raised EXCEPT ![t] = @ + 1]
    /\ raising' = [raising EXCEPT ![t] = TRUE]
    /\ pc' = [pc EXCEPT ![t] = "exit_releasing"]
    /\ UNCHANGED <<locked, tmp, counter, regions, propagated, acquires, releases,
                   parseVars, ingestVars, guardVars, trace, veeamVars>>

ExitReleasing(t) ==
    /\ pc[t] = "exit_releasing"
    /\ pc' = [pc EXCEPT ![t] = "exit_release"]
    /\ Emit(t, "Releasing lock")
    /\ UNCHANGED <<locked, tmp, counter, regions, raising, propagated, raised,
                   acquires, releases, parseVars, ingestVars, guardVars, veeamVars>>

\* threading.Lock.release() of a lock that is not held raises RuntimeError
ExitRelease(t) ==
    /\ pc[t] = "exit_release"
    /\ IF locked
       THEN /\ locked' = FALSE
            /\ releases' = [releases EXCEPT ![t] = @ + 1]
            /\ pc' = [pc EXCEPT ![t] = "exit_return"]
            /\ Emit(t, "release")
       ELSE /\ pc' = [pc EXCEPT ![t] = "runtime_error"]
            /\ UNCHANGED <<locked, releases, trace>>
    /\ UNCHANGED <<tmp, counter, regions, raising, propagated, raised, acquires,
                   parseVars, ingestVars, guardVars, veeamVars>>

\* The with statement re-raises the region's exception unless __exit__ returned true
ExitReturn(t) ==
    /\ pc[t] = "exit_return"
    /\ propagated' = [propagated EXCEPT
                        ![t] = IF raising[t] /\ ~ExitSwallows THEN @ + 1 ELSE @]
    /\ raising' = [raising EXCEPT ![t] = FALSE]
    /\ pc' = [pc EXCEPT ![t] = "idle"]
    /\ UNCHANGED <<locked, tmp, counter, regions, raised, acquires, releases,
                   parseVars, ingestVars, guardVars, trace, veeamVars>>

\* The guarded region enters the same ECLock again: the inner __enter__
EnterNested(t) ==
    /\ pc[t] = "read"
    /\ pc' = [pc EXCEPT ![t] = "enter_acquire"]
    /\ trace' = [trace EXCEPT ![t] = <<Record(t, "Trying to acquire lock")>>]
    /\ UNCHANGED <<locked, tmp, counter, regions, raising, propagated, raised,
                   acquires, releases, parseVars, ingestVars, guardVars, veeamVars>>

----------------------------------------------------------------------------
(* Threads calling ingest inside an ECLock: one lock for all source keys, *)
(* or one lock per source key                                            *)

MaxJobs == 2

JobChunks == {<<49, SP>>, <<120>>, <<NL>>}

Locks == Keys \cup {"all"}

\* The lock that guards the calls for a key
LockOf(sharded, k) == IF sharded THEN k ELSE "all"

InRegion(t) == gpc[t] \in {"append", "decode"}

\* Calls begun so far
Begun == calls + Cardinality({t \in Threads : gpc[t] # "idle"})

\* A transport thread calls ingest: __enter__ is entered
GCall(t, k, chunk) ==
    /\ gpc[t] = "idle"
    /\ Begun < MaxJobs
    /\ gjob' = [gjob EXCEPT ![t] = [key |-> k, chunk |-> chunk]]
    /\ gpc' = [gpc EXCEPT ![t] = "enter_acquire"]
    /\ UNCHANGED <<glocked, gtokens, gorder, returned, parseVars, ingestVars, lockVars, veeamVars>>

\* __enter__: _lock.acquire() returns
GAcquire(t, sharded) ==
    /\ gpc[t] = "enter_acquire"
    /\ CanAcquire(glocked[LockOf(sharded, gjob[t].key)])
    /\ glocked' = [glocked EXCEPT ![LockOf(sharded, gjob[t].key)] = TRUE]
    /\ gorder' = Append(gorder, [key |-> gjob[t].key, chunk |-> gjob[t].chunk, thread |-> t])
    /\ gpc' = [gpc EXCEPT ![t] = "append"]
    /\ UNCHANGED <<gjob, gtokens, returned, parseVars, ingestVars, lockVars, veeamVars>>

\* ingest, step 1: the chunk appended to the pending bytes of the key
GAppend(t) ==
    /\ gpc[t] = "append"
    /\ gtokens' = [gtokens EXCEPT ![t] = Pending(gjob[t].key) \o gjob[t].chunk]
    /\ gpc' = [gpc EXCEPT ![t] = "decode"]
    /\ UNCHANGED <<glocked, gjob, gorder, returned, parseVars, ingestVars, lockVars, veeamVars>>

\* ingest, steps 2 and 3, the decode loop having returned r: the dispatches, the
\* leftover stored and returned
StoreAndReturn(t, r) ==
    /\ Store(gjob[t].key, gjob[t].chunk, r)
    /\ returned' = [returned EXCEPT ![gjob[t].key] = Append(@, r.leftover)]

GDecode(t) ==
    /\ gpc[t] = "decode"
    /\ StoreAndReturn(t, decode_loop(gtokens[t]))
    /\ gpc' = [gpc EXCEPT ![t] = "exit_release"]
    /\ UNCHANGED <<glocked, gjob, gtokens, gorder, sent, parseVars, lockVars, veeamVars>>

\* __exit__: _lock.release(); of a lock that is not held it raises RuntimeError
GRelease(t, sharded) ==
    /\ gpc[t] = "exit_release"
    /\ IF glocked[LockOf(sharded, gjob[t].key)]
       THEN /\ glocked' = [glocked EXCEPT ![LockOf(sharded, gjob[t].key)] = FALSE]
            /\ gpc' = [gpc EXCEPT ![t] = "idle"]
       ELSE /\ gpc' = [gpc EXCEPT ![t] = "runtime_error"]
            /\ UNCHANGED glocked
    /\ UNCHANGED <<gjob, gtokens, gorder, returned, parseVars, ingestVars, lockVars, veeamVars>>

----------------------------------------------------------------------------
(* The framing grammar, stated on the bytes of a window *)

\* w[1..i] is a length prefix: a digit 1-9, digits 0-9, and the space w[i]
IsLengthPrefix(w, i) ==
    /\ 2 <= i /\ i <= Len(w)
    /\ w[1] \in 49..57
    /\ w[i] = SP
    /\ \A j \in 2..(i - 1) : w[j] \in 48..57

HasLengthPrefix(w) == \E i \in 1..Len(w) : IsLengthPrefix(w, i)

\* The place of the space that ends the length prefix; 0 when there is no prefix
PrefixEnd(w) == IF HasLengthPrefix(w) THEN CHOOSE i \in 1..Len(w) : IsLengthPrefix(w, i) ELSE 0

\* The number a run of decimal digits denotes, most significant digit first
RECURSIVE DecimalValue(_, _)
DecimalValue(ds, acc) ==
    IF ds = <<>> THEN acc ELSE DecimalValue(Tail(ds), 10 * acc + (Head(ds) - 48))

PrefixValue(w) == DecimalValue(SubSeq(w, 1, PrefixEnd(w) - 1), 0)

\* A length prefix followed by fewer bytes than it declares, or by enough of them.
\* A prefix of ten digits or more declares more bytes than a window here holds.
IncompleteFrame(w) ==
    /\ HasLengthPrefix(w)
    /\ PrefixEnd(w) > 10 \/ Len(w) - PrefixEnd(w) < PrefixValue(w)
CompleteFrame(w) ==
    /\ HasLengthPrefix(w)
    /\ PrefixEnd(w) <= 10
    /\ Len(w) - PrefixEnd(w) >= PrefixValue(w)

HasNewline(w) == \E i \in 1..Len(w) : w[i] = NL

\* A window from which a message can be decoded
Decodable(w) == IF HasLengthPrefix(w) THEN CompleteFrame(w) ELSE HasNewline(w)

\* The bytes consumed for the messages, each in the framing it was decoded from
RECURSIVE Rewrapped(_, _)
Rewrapped(msgs, frs) ==
    IF msgs = <<>> THEN <<>>
    ELSE Encode(Head(msgs), Head(frs)) \o Rewrapped(Tail(msgs), Tail(frs))

----------------------------------------------------------------------------
(* Claims on the reassembly of arbitrary chunks (Spec) *)

\* C1: chunking invariance.  However the bytes fed for a key were split into
\* chunks, the messages dispatched for the key and its pending buffer are those of
\* one ingest call, on an empty buffer, of all the bytes fed.
ChunkingInvariance ==
    \A k \in Keys :
        /\ ingest(<<>>, fed[k]).msgs = dispatched[k]
        /\ ingest(<<>>, fed[k]).leftover = Pending(k)

\* Three calls for k1 alone have fed "2 \nx": the message "\nx" was dispatched
ChunkingWitness ==
    /\ calls = 3
    /\ DOMAIN buf = {"k1"}
    /\ fed["k1"] = <<50, SP, NL, 120>>
    /\ dispatched["k1"] = << <<NL, 120>> >>
    /\ buf["k1"] = <<>>

\* C2: byte conservation.  The bytes fed for a key are the dispatched messages,
\* each re-wrapped in the framing consumed for it (decimal length, space, payload;
\* or payload, newline), in dispatch order, followed by the pending buffer.
ByteConservation ==
    \A k \in Keys :
        /\ Len(framings[k]) = Len(dispatched[k])
        /\ fed[k] = Rewrapped(dispatched[k], framings[k]) \o Pending(k)

\* After several calls a key has an octet-counted message and a newline-terminated
\* one dispatched
ByteConservationWitness ==
    \E k \in DOMAIN buf :
        /\ calls > 1
        /\ framings[k] = <<"octet", "newline">>
        /\ dispatched[k][1] # <<>>

\* C3: maximal decoding.  After every ingest call no pending buffer holds a
\* message that can be decoded: parse_syslog_message fails on it, as it holds
\* neither a complete octet-counted frame nor, without a length prefix, a newline.
MaximalDecoding ==
    \A k \in DOMAIN buf :
        /\ ~parse_syslog_message(buf[k]).ok
        /\ ~Decodable(buf[k])

\* A call has dispatched a message and left bytes pending
MaximalDecodingWitness ==
    \E k \in DOMAIN buf : dispatched[k] # <<>> /\ buf[k] # <<>>

\* C11: per-source dispatch order.  For every key the messages are dispatched in
\* the order of their places in the key's stream: the place of the last byte
\* consumed for a message is after that of every message dispatched before it,
\* across calls, and each dispatched message is the bytes the stream holds there
\* (before the newline at that place, or up to that place when counted).
DispatchOrder ==
    \A k \in Keys :
        /\ Len(ends[k]) = Len(dispatched[k])
        /\ \A i \in 1..Len(ends[k]) :
              /\ i > 1 => ends[k][i - 1] < ends[k][i]
              /\ ends[k][i] <= Len(fed[k])
              /\ Len(dispatched[k][i]) < ends[k][i]
              /\ IF framings[k][i] = "newline"
                 THEN /\ fed[k][ends[k][i]] = NL
                      /\ dispatched[k][i] =
                            SubSeq(fed[k], ends[k][i] - Len(dispatched[k][i]), ends[k][i] - 1)
                 ELSE dispatched[k][i] =
                        SubSeq(fed[k], ends[k][i] - Len(dispatched[k][i]) + 1, ends[k][i])

\* After several calls two messages of a key are dispatched, different, the
\* first one newline-terminated and the second one counted
DispatchOrderWitness ==
    \E k \in Keys :
        /\ calls > 1
        /\ Len(dispatched[k]) = 2
        /\ dispatched[k][1] # dispatched[k][2]
        /\ framings[k] = <<"newline", "octet">>

\* C12: source-key independence.  A step leaves the pending buffer and the
\* dispatched messages of every key that was fed no byte as they were, and for
\* the key that was fed a chunk, the messages it dispatches and the leftover are
\* those of the chunk ingested after the key's own stream alone, whatever was fed
\* under other keys in between.
KeyIndependence ==
    [][\A k \in Keys :
          IF fed'[k] = fed[k]
          THEN Pending(k)' = Pending(k) /\ dispatched'[k] = dispatched[k]
          ELSE /\ SubSeq(dispatched'[k], Len(dispatched[k]) + 1, Len(dispatched'[k])) =
                    ingest(ingest(<<>>, fed[k]).leftover,
                           SubSeq(fed'[k], Len(fed[k]) + 1, Len(fed'[k]))).msgs
               /\ Pending(k)' =
                    ingest(ingest(<<>>, fed[k]).leftover,
                           SubSeq(fed'[k], Len(fed[k]) + 1, Len(fed'[k]))).leftover]_vars

\* k1 was fed before and after k2: both have dispatched, k1 has bytes pending
KeyIndependenceWitness ==
    /\ calls = 3
    /\ DOMAIN buf = Keys
    /\ buf["k1"] # <<>> /\ dispatched["k1"] # <<>>
    /\ dispatched["k2"] # <<>>

\* C23: entry persistence.  After an ingest call for a key the reassembly map
\* has an entry for that key, also when the call left nothing pending, and no
\* step removes an entry: the keys of the map only grow.
EntryPersistence ==
    /\ [](lastcall.key \in Keys => lastcall.key \in DOMAIN buf)
    /\ [](\A k \in Keys : fed[k] # <<>> => k \in DOMAIN buf)
    /\ [][DOMAIN buf \subseteq DOMAIN buf']_vars

\* k1 has dispatched and has nothing pending, and the last call was for k2
EntryPersistenceWitness ==
    /\ lastcall.key = "k2"
    /\ "k1" \in DOMAIN buf
    /\ buf["k1"] = <<>>
    /\ dispatched["k1"] # <<>>

\* C24: an empty chunk is a no-op.  In every reachable state the pending buffer
\* of every key is a fixed point of ingest with the empty chunk: no message, the
\* same leftover; and an ingest call with the empty chunk dispatches nothing and
\* leaves the pending buffers of all keys as they were.
EmptyChunkNoOp ==
    /\ [](\A k \in Keys :
            /\ ingest(Pending(k), <<>>).msgs = <<>>
            /\ ingest(Pending(k), <<>>).leftover = Pending(k))
    /\ [][(calls' = calls + 1 /\ lastcall'.chunk = <<>>) =>
            /\ dispatched' = dispatched
            /\ framings' = framings
            /\ fed' = fed
            /\ \A k \in Keys : Pending(k)' = Pending(k)
            /\ \A k \in DOMAIN buf : buf'[k] = buf[k]]_vars

\* The last call had the empty chunk, for a key with bytes pending
EmptyChunkNoOpWitness ==
    /\ lastcall.key \in Keys
    /\ lastcall.chunk = <<>>
    /\ Pending(lastcall.key) # <<>>
    /\ calls > 1

----------------------------------------------------------------------------
(* Claims on a spool file fed line by line (SpecSpool) *)

\* The chunk a step has fed under k1
LineFed == SubSeq(fed["k1"]', Len(fed["k1"]) + 1, Len(fed["k1"]'))

\* A line with valid framing: without length prefix, or with one that counts
\* exactly the bytes after it, the newline included
ValidLine(c) ==
    /\ IsLine(c)
    /\ HasLengthPrefix(c) => PrefixValue(c) = Len(c) - PrefixEnd(c)

\* The message of a line with valid framing
LineMessage(c) ==
    IF HasLengthPrefix(c) THEN SubSeq(c, PrefixEnd(c) + 1, Len(c))
    ELSE SubSeq(c, 1, Len(c) - 1)

\* C17 (as claimed): fed one per ingest call, every complete line with valid
\* framing yields exactly one dispatched message and an empty leftover, and a
\* trailing line without newline is kept as the pending buffer.
SpoolLinesAnyPending ==
    [][fed["k1"]' # fed["k1"] =>
          /\ ValidLine(LineFed) =>
                /\ Len(dispatched["k1"]') = Len(dispatched["k1"]) + 1
                /\ Pending("k1")' = <<>>
          /\ IsTrailingLine(LineFed) =>
                /\ dispatched["k1"]' = dispatched["k1"]
                /\ Pending("k1")' = Pending("k1") \o LineFed]_vars

\* C17 (amended): a line with valid framing fed while nothing is pending yields
\* exactly one dispatched message, its bytes without the prefix or the newline,
\* and an empty leftover; a trailing line without newline is appended to the
\* pending buffer, dispatching nothing, when the pending bytes then do not start
\* with a length prefix.
SpoolLines ==
    [][fed["k1"]' # fed["k1"] =>
          /\ (Pending("k1") = <<>> /\ ValidLine(LineFed)) =>
                /\ dispatched["k1"]' = dispatched["k1"] \o <<LineMessage(LineFed)>>
                /\ Pending("k1")' = <<>>
          /\ (IsTrailingLine(LineFed) /\ ~HasLengthPrefix(Pending("k1") \o LineFed)) =>
                /\ dispatched["k1"]' = dispatched["k1"]
                /\ Pending("k1")' = Pending("k1") \o LineFed]_vars

\* A counted line has yielded one message, the newline it ends with, and a
\* trailing line is pending
SpoolLinesWitness ==
    /\ calls = 2
    /\ framings["k1"] = <<"octet">>
    /\ dispatched["k1"] = << <<NL>> >>
    /\ "k1" \in DOMAIN buf /\ buf["k1"] # <<>>

----------------------------------------------------------------------------
(* Claims on parse_syslog_message applied to one window (SpecParse) *)

\* C4: incomplete octet-counted frame.  On a window that starts with a length
\* prefix of value n with fewer than n bytes after the space,
\* parse_syslog_message returns Failure and the whole window, newline or not, and
\* ingest of the window on an empty buffer dispatches nothing and returns it all.
IncompleteFrameKept ==
    IncompleteFrame(window) =>
        /\ call = "parse_syslog_message" => result = Fail(window)
        /\ call = "ingest" => result.msgs = <<>> /\ result.leftover = window

\* parse_syslog_message has failed on an incomplete frame that holds a newline
IncompleteFrameWitness ==
    /\ call = "parse_syslog_message"
    /\ IncompleteFrame(window)
    /\ HasNewline(window)
    /\ ~result.ok

\* C5: octet counting.  On a window that starts with a length prefix of value n
\* with at least n bytes after the space, parse_syslog_message returns exactly
\* those n bytes as the message and all that follows them as the remainder,
\* whatever newlines the message or the remainder hold.
OctetCounting ==
    (call = "parse_syslog_message" /\ CompleteFrame(window)) =>
        /\ result.ok
        /\ result.value =
              SubSeq(window, PrefixEnd(window) + 1, PrefixEnd(window) + PrefixValue(window))
        /\ result.rest =
              SubSeq(window, PrefixEnd(window) + PrefixValue(window) + 1, Len(window))

\* A counted message that holds a newline, with a newline right after it
OctetCountingWitness ==
    /\ call = "parse_syslog_message"
    /\ CompleteFrame(window)
    /\ HasNewline(result.value)
    /\ result.rest # <<>> /\ Head(result.rest) = NL

\* C6: newline fallback.  On a window that does not start with a length prefix,
\* parse_syslog_message is newline framing of the whole window: with a newline,
\* the message is all bytes before the first one and the remainder all bytes after
\* it; without, Failure and the window.
NewlineFallback ==
    (call = "parse_syslog_message" /\ ~HasLengthPrefix(window)) =>
        IF HasNewline(window)
        THEN \E i \in 1..Len(window) :
                /\ window[i] = NL
                /\ \A j \in 1..(i - 1) : window[j] # NL
                /\ result = Ok(SubSeq(window, 1, i - 1), SubSeq(window, i + 1, Len(window)))
        ELSE result = Fail(window)

\* A leading zero before a space: the message is the line, "0 " included
NewlineFallbackWitness ==
    /\ call = "parse_syslog_message"
    /\ Len(window) > 3
    /\ window[1] = 48 /\ window[2] = SP
    /\ result.ok
    /\ SubSeq(result.value, 1, 2) = <<48, SP>>

\* C19: newline-terminated frame.  On a window with a newline,
\* parse_non_transparent_frame returns the bytes before the first newline as the
\* message (none when the window starts with a newline) and the bytes after that
\* newline as the remainder; on a window without newline, Failure and the window.
NewlineTerminatedFrame ==
    call = "parse_non_transparent_frame" =>
        IF HasNewline(window)
        THEN \E i \in 1..Len(window) :
                /\ window[i] = NL
                /\ \A j \in 1..(i - 1) : window[j] # NL
                /\ result.ok
                /\ result.value = SubSeq(window, 1, i - 1)
                /\ result.rest = SubSeq(window, i + 1, Len(window))
        ELSE ~result.ok /\ result.rest = window

\* A window that starts with a newline and holds another: the empty message
NewlineTerminatedFrameWitness ==
    /\ call = "parse_non_transparent_frame"
    /\ Len(window) > 2 /\ window[1] = NL
    /\ result.ok /\ result.value = <<>>
    /\ HasNewline(result.rest)

----------------------------------------------------------------------------
(* Claims on every parser applied to one window (SpecParse, SpecParseLong) *)

Parsers ==
    {"parse_bytes", "parse_one_of", "parse_digit", "parse_msg_len",
     "parse_non_transparent_frame", "parse_syslog_message"}

\* C13 (as claimed): totality.  Applied to any window, every parser, and ingest,
\* returns an ordinary result: no exception leaves it.
Totality == call # "none" => ~result.raised

\* C14: full backtracking.  Whenever a parser reports Failure, the window it
\* returns is the window it was given, whatever its sub-parsers had consumed.
FullBacktracking ==
    (call \in Parsers /\ ~result.ok /\ ~result.raised) => result.rest = window

\* parse_msg_len has failed after a digit 1-9 and further digits, the space missing
FullBacktrackingWitness ==
    /\ call = "parse_msg_len"
    /\ window # <<>> /\ window[1] \in NonZeroDigits
    /\ LeadingDigits(window) > 1
    /\ LeadingDigits(window) < Len(window)
    /\ ~result.ok

\* C15 (as claimed): length-prefix grammar.  parse_msg_len succeeds exactly on
\* the windows that start with a digit 1-9, digits 0-9 and a space, with the
\* decimal value of the digits and the window after the space; on every other
\* window it reports Failure.
LengthPrefixGrammar ==
    call = "parse_msg_len" =>
        IF HasLengthPrefix(window)
        THEN /\ result.ok
             /\ result.value = PrefixValue(window)
             /\ result.rest = SubSeq(window, PrefixEnd(window) + 1, Len(window))
        ELSE ~result.ok /\ ~result.raised

\* C22: ingest loop termination.  Every successful parse_syslog_message returns a
\* remainder strictly shorter than its window: besides the message it consumes a
\* newline, or a length prefix of at least a digit and a space; so in the decode
\* loop of one ingest call the bytes left decrease with every message, and the
\* loop decodes at most as many messages as the buffer has bytes.
LoopTermination ==
    /\ (call = "parse_syslog_message" /\ result.ok) =>
          /\ Len(result.rest) < Len(window)
          /\ Len(window) - Len(result.rest) - Len(result.value) >=
                (IF HasLengthPrefix(window) THEN 2 ELSE 1)
    /\ call = "ingest" =>
          /\ Len(result.msgs) <= Len(window)
          /\ Len(result.lefts) = Len(result.msgs)
          /\ \A i \in 1..Len(result.lefts) :
                result.lefts[i] < (IF i = 1 THEN Len(window) ELSE result.lefts[i - 1])

\* A buffer of newlines only: as many messages as bytes
LoopTerminationWitness ==
    /\ call = "ingest"
    /\ Len(window) > 2
    /\ Len(result.msgs) = Len(window)

\* C25: no zero-length octet-counted message.  Every value a successful
\* parse_msg_len returns is at least 1; parse_syslog_message returns an empty
\* message only for a window that starts with a newline, so on a window that
\* starts with "0 " a success is the newline-framed line, "0 " included; and in
\* the decode loop every empty message comes from newline framing.
NoEmptyOctetMessage ==
    /\ (call = "parse_msg_len" /\ result.ok) => result.value >= 1
    /\ (call = "parse_syslog_message" /\ result.ok /\ result.value = <<>>) =>
          (window # <<>> /\ window[1] = NL)
    /\ (call = "parse_syslog_message" /\ result.ok /\ Take(window, 2) = <<48, SP>>) =>
          /\ Take(result.value, 2) = <<48, SP>>
          /\ window = result.value \o <<NL>> \o result.rest
    /\ call = "ingest" =>
          \A i \in 1..Len(result.msgs) :
              result.msgs[i] = <<>> => result.framings[i] = "newline"

\* "0 " and a newline right after it: the message is "0 ", not an empty one
NoEmptyOctetMessageWitness ==
    /\ call = "parse_syslog_message"
    /\ Take(window, 3) = <<48, SP, NL>>
    /\ result.ok
    /\ result.value = <<48, SP>>

\* The two encodings of a message in front of a remainder
OctetForm(w, msg, rest) ==
    /\ Len(msg) >= 1
    /\ w = int_to_bytes(Len(msg)) \o <<SP>> \o msg \o rest

NewlineForm(w, msg, rest) ==
    /\ NewlineFree(msg)
    /\ w = msg \o <<NL>> \o rest

\* C26: canonical re-encoding.  A window on which parse_syslog_message succeeds
\* with (msg, rest) is either the decimal of len(msg) without a leading zero, a
\* space, msg and rest, or msg without a newline in it, a newline and rest;
\* exactly one of the two, and rest is a proper suffix of the window.
CanonicalEncoding ==
    (call = "parse_syslog_message" /\ result.ok) =>
        /\ OctetForm(window, result.value, result.rest)
              # NewlineForm(window, result.value, result.rest)
        /\ OctetForm(window, result.value, result.rest) <=> HasLengthPrefix(window)
        /\ Len(result.rest) < Len(window)
        /\ result.rest = Drop(window, Len(window) - Len(result.rest))

\* An octet-counted message that is a newline, bytes after it
CanonicalEncodingWitness ==
    /\ call = "parse_syslog_message"
    /\ result.ok
    /\ result.value = <<NL>>
    /\ result.rest # <<>>
    /\ OctetForm(window, result.value, result.rest)

----------------------------------------------------------------------------
(* Claims on the chunks of the tests (SpecTests) *)

\* The first call fed the line that starts with "45 "
FedOctet45Line == calls = 1 /\ fed["k1"] = Octet45Line

\* C7 as stated: ingesting the chunk "45 May 26 ... octet message\n" on an empty
\* buffer dispatches exactly one message and leaves nothing pending.
Octet45OneMessage ==
    FedOctet45Line => Len(dispatched["k1"]) = 1 /\ Pending("k1") = <<>>

\* C7, amended: ingesting the chunk "45 May 26 ... octet message\n" on an empty
\* buffer dispatches exactly two messages, the 45 bytes after the length prefix
\* and then the 9 bytes "t message" that the newline ends, and leaves nothing
\* pending.
Octet45TwoMessages ==
    FedOctet45Line =>
        /\ dispatched["k1"] = <<SubSeq(Octet45Line, 4, 48), SubSeq(Octet45Line, 49, 57)>>
        /\ framings["k1"] = <<"octet", "newline">>
        /\ Pending("k1") = <<>>

Octet45Witness ==
    /\ FedOctet45Line
    /\ Len(dispatched["k1"]) = 2
    /\ dispatched["k1"][2] = <<116, 32, 109, 101, 115, 115, 97, 103, 101>>

----------------------------------------------------------------------------
(* Claims on the reassembly of framed messages (SpecFrames) *)

PayloadsSent(k) == [i \in 1..Len(sent[k]) |-> sent[k][i].payload]

\* A frame that decodes to its payload: an octet-counted payload is not empty (its
\* length is written with a first digit 1-9), a newline-terminated payload does
\* not start with a length prefix
Unambiguous(f) ==
    IF f.framing = "octet" THEN f.payload # <<>> ELSE ~HasLengthPrefix(f.payload)

\* C8 as stated: the frames sent under a key, each octet-counted or
\* newline-terminated (newline-free payload), dispatch exactly their payloads, in
\* order, and leave nothing pending.
RoundTripAnyPayload ==
    /\ dispatched["k1"] = PayloadsSent("k1")
    /\ Pending("k1") = <<>>

\* C8, amended: when every octet-counted payload is not empty and every
\* newline-terminated payload is newline-free and does not start with a length
\* prefix (digit 1-9, digits, space), the frames sent under a key dispatch exactly
\* their payloads, in order, each by the framing it was sent in, and leave
\* nothing pending.
RoundTrip ==
    (\A i \in 1..Len(sent["k1"]) : Unambiguous(sent["k1"][i])) =>
        /\ dispatched["k1"] = PayloadsSent("k1")
        /\ framings["k1"] = [i \in 1..Len(sent["k1"]) |-> sent["k1"][i].framing]
        /\ Pending("k1") = <<>>

\* An octet-counted payload of more than nine bytes and a newline-terminated one
\* were sent, and dispatched
RoundTripWitness ==
    /\ Len(sent["k1"]) = 2
    /\ sent["k1"][1].framing = "octet" /\ Len(sent["k1"][1].payload) > 9
    /\ sent["k1"][2].framing = "newline" /\ sent["k1"][2].payload # <<>>
    /\ dispatched["k1"] = PayloadsSent("k1")

----------------------------------------------------------------------------
(* Claims on ECLock (SpecLock) *)

\* Between the return of _lock.acquire() and _lock.release()
InGuard(t) == pc[t] \in {"enter_acquired", "read", "write", "exit_releasing", "exit_release"}

AllDone == \A t \in Threads : pc[t] = "idle" /\ regions[t] = 0

\* C9: mutual exclusion.  At most one thread is inside the guard at any time, and
\* when NThreads threads have each done NRegions guarded increments the counter
\* is NThreads * NRegions, under every interleaving.
GuardedIncrements ==
    /\ Cardinality({t \in Threads : InGuard(t)}) <= 1
    /\ AllDone => counter = NThreads * NRegions

\* All threads are done, one of them after a region that failed
GuardedIncrementsWitness ==
    /\ AllDone
    /\ counter = NThreads * NRegions
    /\ Sum(raised, Threads) > 0

\* C10: guard release.  Every entry into the guard is followed by exactly one
\* release when the region is left, normally or by an exception; the exception
\* reaches the caller; and the lock is held exactly while a thread is inside.
GuardRelease ==
    /\ \A t \in Threads :
          /\ releases[t] = acquires[t] - (IF InGuard(t) THEN 1 ELSE 0)
          /\ propagated[t] = raised[t] - (IF raising[t] THEN 1 ELSE 0)
          /\ pc[t] # "runtime_error"
    /\ locked <=> \E t \in Threads : InGuard(t)

\* A region has raised: its thread is back outside with the exception, the lock
\* is free and was released once per entry
GuardReleaseWitness ==
    \E t \in Threads :
        /\ pc[t] = "idle"
        /\ propagated[t] = 1
        /\ acquires[t] > 1 /\ releases[t] = acquires[t]
        /\ ~locked

\* The steps of one thread
ThreadStep(t) ==
    \/ EnterTrying(t)
    \/ EnterAcquire(t)
    \/ EnterAcquired(t)
    \/ RegionRead(t)
    \/ RegionWrite(t)
    \/ ExitReleasing(t)
    \/ ExitRelease(t)
    \/ ExitReturn(t)

\* The thread is inside _lock.acquire() and cannot return from it
Blocked(t) == pc[t] = "enter_acquire" /\ ~CanAcquire(locked)

\* C18 (as claimed): non-blocking core.  No operation, entering the guard
\* included, ever keeps the calling thread waiting for another thread.
NeverBlocked == \A t \in Threads : ~Blocked(t)

\* C18 (amended): a thread waits only inside __enter__, at _lock.acquire(), and
\* there exactly while another thread is inside the guard; at every other place
\* of __enter__, the region and __exit__ its next step can be taken at once.
BlockedOnlyEntering ==
    \A t \in Threads :
        /\ Blocked(t) <=> (pc[t] = "enter_acquire" /\ \E u \in Threads \ {t} : InGuard(u))
        /\ (pc[t] # "enter_acquire" /\ ~(pc[t] = "idle" /\ regions[t] = 0)) =>
              ENABLED ThreadStep(t)

\* One thread waits at acquire() while the other is about to leave the guard
BlockedOnlyEnteringWitness ==
    \E t, u \in Threads : Blocked(t) /\ pc[u] = "exit_releasing"

\* C28: guard progress.  With one ECLock, no nesting and regions that finish, a
\* step is possible as long as a thread is not done; whenever a thread waits to
\* enter the guard, eventually a thread returns from acquire(); and when all
\* threads are done the lock is free.
GuardProgress ==
    /\ [](~AllDone => ENABLED (\E t \in Threads : ThreadStep(t)))
    /\ (\E t \in Threads : pc[t] = "enter_acquire")
          ~> (\E u \in Threads : pc[u] = "enter_acquired")
    /\ [](AllDone => ~locked)

\* All threads wait to enter the guard, one of them after a region of its own
GuardProgressWitness ==
    /\ \A t \in Threads : pc[t] = "enter_acquire"
    /\ ~locked
    /\ \E t \in Threads : releases[t] > 0

\* The thread is at the inner acquire() of a guard it holds
Nested(t) == pc[t] = "enter_acquire" /\ acquires[t] > releases[t]

\* C27: the guard is not reentrant.  A thread that enters the guard while it
\* holds it is blocked at the inner acquire, and from then on it stays there, the
\* lock stays held and no thread acquires it: every thread that tries to enter
\* blocks as well.
NotReentrant ==
    /\ [](\A t \in Threads : Nested(t) => Blocked(t))
    /\ [][(\E t \in Threads : Nested(t)) =>
            /\ \A t \in Threads : Nested(t) => Nested(t)'
            /\ locked'
            /\ \A u \in Threads : acquires'[u] = acquires[u]]_vars

\* A thread is at the inner acquire and another thread waits to enter the guard
NotReentrantWitness ==
    \E t, u \in Threads :
        /\ Nested(t)
        /\ u # t /\ pc[u] = "enter_acquire" /\ Blocked(u)

\* The records and lock actions of one guarded region, in the order of the code
GuardCycle ==
    <<"Trying to acquire lock", "acquire", "Acquired lock", "region",
      "Releasing lock", "release">>

Emitted(t, what) == \E i \in 1..Len(trace[t]) : trace[t][i].what = what

\* After the thread's 'Acquired lock' record, before its 'Releasing lock' record
BetweenRecords(t) == Emitted(t, "Acquired lock") /\ ~Emitted(t, "Releasing lock")

\* C21: guard trace ordering.  For every guarded region of a thread, its records
\* and lock actions come in the order 'Trying to acquire lock', acquire,
\* 'Acquired lock', region, 'Releasing lock', release, each with the name of that
\* thread, the lock being held from acquire to release; and while a thread is
\* between its 'Acquired lock' and its 'Releasing lock' record, no other thread
\* emits an 'Acquired lock' record.
TraceOrdering ==
    /\ [](\A t \in Threads :
            /\ Len(trace[t]) <= Len(GuardCycle)
            /\ \A i \in 1..Len(trace[t]) : trace[t][i] = Record(t, GuardCycle[i])
            /\ (Emitted(t, "acquire") /\ ~Emitted(t, "release")) => locked)
    /\ [][\A t \in Threads : \A u \in Threads \ {t} :
            (BetweenRecords(t) /\ trace'[u] # trace[u]) =>
                trace'[u][Len(trace'[u])].what # "Acquired lock"]_vars

\* One thread has logged 'Acquired lock' after another thread went through its
\* whole guarded region
TraceOrderingWitness ==
    \E t, u \in Threads :
        /\ t # u
        /\ Emitted(t, "release")
        /\ BetweenRecords(u)
        /\ Len(trace[u]) = 3

----------------------------------------------------------------------------
(* Claims on ingest inside the guard (SpecGuarded, SpecSharded) *)

\* The call at place i of gorder has not stored yet: it is the last call of a
\* thread that is inside its region
InFlight(i) ==
    /\ InRegion(gorder[i].thread)
    /\ \A j \in (i + 1)..Len(gorder) : gorder[j].thread # gorder[i].thread

\* The calls that have stored, in lock-acquisition order
RECURSIVE CompletedFrom(_)
CompletedFrom(i) ==
    IF i > Len(gorder) THEN <<>>
    ELSE (IF InFlight(i) THEN <<>> ELSE <<gorder[i]>>) \o CompletedFrom(i + 1)

Completed == CompletedFrom(1)

\* The chunks of the calls for key k among the calls g
RECURSIVE ChunksOf(_, _)
ChunksOf(g, k) ==
    IF g = <<>> THEN <<>>
    ELSE (IF Head(g).key = k THEN <<Head(g).chunk>> ELSE <<>>) \o ChunksOf(Tail(g), k)

\* ingest called for one key with the chunks cs one after another, p pending
RECURSIVE Serial(_, _)
Serial(p, cs) ==
    IF cs = <<>> THEN [msgs |-> <<>>, leftover |-> p]
    ELSE LET d == Serial(ingest(p, Head(cs)).leftover, Tail(cs))
         IN [msgs |-> ingest(p, Head(cs)).msgs \o d.msgs, leftover |-> d.leftover]

\* C20: linearizable guarded ingest.  With every call inside the one guard, the
\* messages dispatched for each key and its pending buffer are those of the calls
\* that have stored, executed one after another in lock-acquisition order; the
\* bytes of those chunks, in that order, are the bytes accounted for: no chunk
\* is lost or lies inside another.
LinearizableIngest ==
    \A k \in Keys :
        /\ dispatched[k] = Serial(<<>>, ChunksOf(Completed, k)).msgs
        /\ Pending(k) = Serial(<<>>, ChunksOf(Completed, k)).leftover
        /\ Rewrapped(dispatched[k], framings[k]) \o Pending(k) =
              Concat(ChunksOf(Completed, k))

\* Two threads have called ingest for the same key, with "1 " and with "x": the
\* message "x" was dispatched while the second thread still holds the lock
LinearizableIngestWitness ==
    /\ Len(gorder) = 2
    /\ gorder[1].thread # gorder[2].thread
    /\ gorder[1].key = gorder[2].key
    /\ gpc[gorder[2].thread] = "exit_release"
    /\ dispatched[gorder[1].key] = << <<120>> >>

\* The implementation with the single lock run on the calls g one after another:
\* the pending buffers, the messages dispatched and the leftovers returned
RECURSIVE SingleLockRun(_, _)
SingleLockRun(st, g) ==
    IF g = <<>> THEN st
    ELSE SingleLockRun(
            [buf |-> [st.buf EXCEPT ![Head(g).key] =
                         ingest(st.buf[Head(g).key], Head(g).chunk).leftover],
             dispatched |-> [st.dispatched EXCEPT ![Head(g).key] =
                         @ \o ingest(st.buf[Head(g).key], Head(g).chunk).msgs],
             returned |-> [st.returned EXCEPT ![Head(g).key] =
                         Append(@, ingest(st.buf[Head(g).key], Head(g).chunk).leftover)]],
            Tail(g))

SingleLockStart ==
    [buf |-> [k \in Keys |-> <<>>],
     dispatched |-> [k \in Keys |-> <<>>],
     returned |-> [k \in Keys |-> <<>>]]

\* C16: lock sharding equivalence.  With one lock per source key, the messages
\* dispatched and the leftovers returned for every key are, in order, those of an
\* execution of the single-lock implementation: the one that runs the calls that
\* have stored in the order in which they acquired their locks.
ShardingEquivalence ==
    \A k \in Keys :
        /\ dispatched[k] = SingleLockRun(SingleLockStart, Completed).dispatched[k]
        /\ returned[k] = SingleLockRun(SingleLockStart, Completed).returned[k]

\* Two threads hold the locks of different keys at once: one has dispatched a
\* message while the other is inside its region
ShardingEquivalenceWitness ==
    \E t, u \in Threads :
        /\ gpc[t] = "decode" /\ gpc[u] = "exit_release"
        /\ gjob[t].key # gjob[u].key
        /\ glocked[gjob[t].key] /\ glocked[gjob[u].key]
        /\ dispatched[gjob[u].key] # <<>>

----------------------------------------------------------------------------
(* check_veeam_tapejobs: the running time of a tape job *)

Items == {"Job A", "Job B"}
JobIds == {"id1", "id2"}
LastResults == {"None", "Success", "Failed"}
LastStates == {"Working", "Idle", "Stopped"}

\* The value of a key that was never set, and the one the check resets it to
None == -1

\* parsed: the jobs of the agent section, item -> its columns
Data == [job_id : JobIds, last_result : LastResults, last_state : LastStates]
Sections == UNION {[its -> Data] : its \in SUBSET Items}

\* BACKUP_STATE.get(last_result, 2)
BACKUP_STATE(last_result) ==
    IF last_result = "Success" THEN 0 ELSE IF last_result = "Warning" THEN 1 ELSE 2

\* Mutant: the last state is not looked at
FinishedByResult(data) == data.last_result # "None"

\* The job is not running: the branch that reports the last result
Finished(data) ==
    data.last_result # "None" \/ data.last_state \notin {"Working", "Idle"}

\* not running_since
Falsy(v) == v = None \/ v = 0

get_item_state(job_id) == item_state[job_id]
set_item_state(job_id, v) == item_state' = [item_state EXCEPT ![job_id] = v]

\* The branch of a running job; running_since is what get_item_state returned
Running(data, now, running_since) ==
    IF Falsy(running_since)
    THEN /\ set_item_state(data.job_id, now)
         /\ yielded' = << <<0, "Backup in progress since", now>>,
                          <<"check_levels", now - now>> >>
    ELSE /\ item_state' = item_state
         /\ yielded' = << <<0, "Backup in progress since", running_since>>,
                          <<"check_levels", now - running_since>> >>

\* One call, its generator consumed to the end; now is what time.time() returns
check_veeam_tapejobs(item, parsed, now) ==
    /\ clock' = now
    /\ IF item \notin DOMAIN parsed
       THEN /\ vcall' = [present |-> FALSE, job_id |-> "", last_result |-> "",
                         last_state |-> ""]
            /\ yielded' = <<>>
            /\ item_state' = item_state
       ELSE /\ vcall' = [present |-> TRUE, job_id |-> parsed[item].job_id,
                         last_result |-> parsed[item].last_result,
                         last_state |-> parsed[item].last_state]
            /\ IF Finished(parsed[item])
               THEN /\ yielded' =
                         << <<BACKUP_STATE(parsed[item].last_result), "Last backup result",
                              parsed[item].last_result>>,
                            <<0, "Last state", parsed[item].last_state>> >>
                    /\ set_item_state(parsed[item].job_id, None)
               ELSE Running(parsed[item], now, get_item_state(parsed[item].job_id))
    /\ UNCHANGED <<parseVars, ingestVars, lockVars, guardVars>>

MaxTime == 3

\* A check cycle calls the check for an item with the section of that cycle; the
\* clock does not run backwards
Check(item, parsed, now) ==
    /\ now >= clock
    /\ check_veeam_tapejobs(item, parsed, now)

----------------------------------------------------------------------------
(* Claims on check_veeam_tapejobs (SpecVeeam) *)

\* The last call found its job in progress
InProgress(c) ==
    /\ c.present
    /\ c.last_result = "None"
    /\ c.last_state \in {"Working", "Idle"}

\* C29: the stored running_since of a job.  A call that finds the job in
\* progress sets the value to the current time when none is stored and leaves a
\* stored one unchanged; a call that finds the job not in progress resets it to
\* None; a call leaves the values of all other jobs unchanged, and a call for an
\* item that is not in the section leaves all of them unchanged; so a value
\* becomes a time only by an in-progress call that found None, and it is the time
\* of that call.
RunningSince ==
    /\ [](vcall.present =>
            IF InProgress(vcall)
            THEN item_state[vcall.job_id] \in 1..clock
            ELSE item_state[vcall.job_id] = None)
    /\ [][\A j \in JobIds :
            /\ (vcall'.present /\ vcall'.job_id = j /\ InProgress(vcall')) =>
                  item_state'[j] = (IF item_state[j] = None THEN clock' ELSE item_state[j])
            /\ (vcall'.present /\ vcall'.job_id = j /\ ~InProgress(vcall')) =>
                  item_state'[j] = None
            /\ ~(vcall'.present /\ vcall'.job_id = j) => item_state'[j] = item_state[j]
            /\ (item_state'[j] # item_state[j] /\ item_state'[j] # None) =>
                  /\ vcall'.present /\ vcall'.job_id = j /\ InProgress(vcall')
                  /\ item_state[j] = None
                  /\ item_state'[j] = clock']_vars

\* A job found in progress again, later than the time stored for it
RunningSinceWitness ==
    /\ InProgress(vcall)
    /\ item_state[vcall.job_id] # None
    /\ item_state[vcall.job_id] < clock

----------------------------------------------------------------------------
(* Specifications *)

VeeamStart ==
    /\ item_state = [j \in JobIds |-> None]
    /\ clock = 1
    /\ vcall = [present |-> FALSE, job_id |-> "", last_result |-> "", last_state |-> ""]
    /\ yielded = <<>>

ParseStart(ws) ==
    /\ window \in ws
    /\ call = "none"
    /\ arg = <<>>
    /\ result = Fail(<<>>)

IngestStart ==
    /\ buf = [k \in {} |-> <<>>]
    /\ dispatched = [k \in Keys |-> <<>>]
    /\ framings = [k \in Keys |-> <<>>]
    /\ ends = [k \in Keys |-> <<>>]
    /\ calls = 0
    /\ lastcall = [key |-> "none", chunk |-> <<>>]
    /\ fed = [k \in Keys |-> <<>>]
    /\ sent = [k \in Keys |-> <<>>]

\* n: the guarded regions each thread will execute
LockStartWith(n) ==
    /\ locked = FALSE
    /\ pc = [t \in Threads |-> "idle"]
    /\ tmp = [t \in Threads |-> 0]
    /\ counter = 0
    /\ regions = [t \in Threads |-> n]
    /\ raising = [t \in Threads |-> FALSE]
    /\ propagated = [t \in Threads |-> 0]
    /\ raised = [t \in Threads |-> 0]
    /\ acquires = [t \in Threads |-> 0]
    /\ releases = [t \in Threads |-> 0]
    /\ trace = [t \in Threads |-> <<>>]

LockStart == LockStartWith(NRegions)

GuardStart ==
    /\ glocked = [l \in Locks |-> FALSE]
    /\ gpc = [t \in Threads |-> "idle"]
    /\ gjob = [t \in Threads |-> [key |-> "k1", chunk |-> <<>>]]
    /\ gtokens = [t \in Threads |-> <<>>]
    /\ gorder = <<>>
    /\ returned = [k \in Keys |-> <<>>]

\* Reassembly of arbitrary chunks
Init == ParseStart({<<>>}) /\ IngestStart /\ LockStart /\ GuardStart /\ VeeamStart
Next == \E k \in Keys, chunk \in SeqsUpTo(Alphabet, MaxFed - TotalFed) : Feed(k, chunk)
Spec == Init /\ [][Next]_vars

\* Reassembly of framed messages
NextFrames ==
    \E payload \in Payloads, framing \in {"octet", "newline"} :
        SendFrame("k1", payload, framing)
SpecFrames == Init /\ [][NextFrames]_vars

\* Reassembly of the chunks the tests feed
NextTests == \E chunk \in TestChunks : FeedTest(chunk)
SpecTests == Init /\ [][NextTests]_vars

\* A spool file fed line by line
NextSpool == \E line \in FileLines(MaxFed - TotalFed) : FeedLine(line)
SpecSpool == Init /\ [][NextSpool]_vars

MaxTail == 1

\* The parsers on every window
\* and on windows with a length prefix of two digits: "10 " or "11 ", ten bytes
\* with or without a newline among them, and a tail
TenBytes(b) == [i \in 1..10 |-> IF i = 5 THEN b ELSE 120]
TwoDigitWindows ==
    {<<49, d, SP>> \o TenBytes(b) \o tail :
        d \in {48, 49}, b \in {120, NL}, tail \in SeqsUpTo(Alphabet, MaxTail)}
InitParse ==
    /\ ParseStart(SeqsUpTo(Alphabet, MaxLen) \cup TwoDigitWindows)
    /\ IngestStart /\ LockStart /\ GuardStart /\ VeeamStart
NextParse ==
    \/ \E length \in 0..(MaxLen + 1) : CallParseBytes(length)
    \/ \E expected \in ExpectedSets : CallParseOneOf(expected)
    \/ CallParseDigit
    \/ CallParseSyslogMessage
    \/ CallParseMsgLen
    \/ CallParseNonTransparentFrame
    \/ CallIngest
SpecParse == InitParse /\ [][NextParse]_vars

\* The parsers on windows whose length prefix has more digits than int() converts
MaxExtra == 2
Ones(n) == [i \in 1..n |-> 49]
LongWindows ==
    {Ones(IntMaxStrDigits + e) \o <<SP>> \o tail :
        e \in 1..MaxExtra, tail \in SeqsUpTo(Alphabet, MaxTail)}
InitParseLong == ParseStart(LongWindows) /\ IngestStart /\ LockStart /\ GuardStart /\ VeeamStart
SpecParseLong == InitParseLong /\ [][NextParse]_vars

\* Check cycles of the tape jobs
NextVeeam ==
    \E item \in Items, parsed \in Sections, now \in 1..MaxTime : Check(item, parsed, now)
SpecVeeam == Init /\ [][NextVeeam]_vars

\* Threads under the guard
NextLock ==
    \E t \in Threads :
        \/ EnterTrying(t)
        \/ EnterAcquire(t)
        \/ EnterAcquired(t)
        \/ RegionRead(t)
        \/ RegionWrite(t)
        \/ RegionRaise(t)
        \/ ExitReleasing(t)
        \/ ExitRelease(t)
        \/ ExitReturn(t)
SpecLock == Init /\ [][NextLock]_vars

\* Threads under the guard with a scheduler that lets every thread run
ProgressRegions == 1
InitProgress ==
    ParseStart({<<>>}) /\ IngestStart /\ LockStartWith(ProgressRegions) /\ GuardStart /\ VeeamStart
SpecProgress ==
    InitProgress /\ [][NextLock]_vars /\ \A t \in Threads : WF_vars(ThreadStep(t))

\* Threads under the guard, with regions that may enter the guard again
NextNested == NextLock \/ \E t \in Threads : EnterNested(t)
SpecNested == Init /\ [][NextNested]_vars

\* Threads calling ingest inside one lock
NextGuarded ==
    \E t \in Threads :
        \/ \E k \in Keys, chunk \in JobChunks : GCall(t, k, chunk)
        \/ GAcquire(t, FALSE)
        \/ GAppend(t)
        \/ GDecode(t)
        \/ GRelease(t, FALSE)
SpecGuarded == Init /\ [][NextGuarded]_vars

\* Threads calling ingest inside the lock of the source key
NextSharded ==
    \E t \in Threads :
        \/ \E k \in Keys, chunk \in JobChunks : GCall(t, k, chunk)
        \/ GAcquire(t, TRUE)
        \/ GAppend(t)
        \/ GDecode(t)
        \/ GRelease(t, TRUE)
SpecSharded == Init /\ [][NextSharded]_vars

====
